---- MODULE Spec2Model ----
(***************************************************************************)
(* Label rendering of app.py: create_label_pdf and draw_single_label.      *)
(*                                                                         *)
(* Two calls run side by side, each on its own buffer and canvas; the      *)
(* only thing they both read is the wall clock.  A call is                 *)
(* create_label_pdf(product_name, label_size), which calls                 *)
(* draw_single_label once or twice with 48 mm cells and saves the page.    *)
(*                                                                         *)
(* Lengths are exact.  A length is a record [dmm, hmpt] standing for       *)
(*      dmm/10 * mm_to_pt  +  hmpt/2000    points,                         *)
(* so a page width 48 * mm_to_pt is [dmm |-> 480, hmpt |-> 0] and a text   *)
(* width (sum of glyph widths) * 0.001 * size is [dmm |-> 0, hmpt |->      *)
(* 2 * sum * size].  The one comparison of the program, text_width >       *)
(* available_width, is decided with mm_to_pt = 2.834645669 exactly.        *)
(***************************************************************************)
EXTENDS Integers, Sequences, FiniteSets, TLC

VARIABLES
    clock,    \* the wall clock datetime.now() reads, in ticks since 31/12/2025 00:00
    pc,       \* pc[p]: where call p is
    args,     \* args[p]: the arguments call p was given
    cells,    \* cells[p]: the cells of call p's page, in drawing order
    todo,     \* todo[p]: the draw_single_label calls call p has yet to make
    frame,    \* frame[p]: the locals of call p's running draw_single_label
    canvas,   \* canvas[c]: the reportlab canvas c
    result,   \* result[p]: what create_label_pdf returned to call p's caller
    reads,    \* reads[p]: the clock values call p has read, one per cell
    saved_at  \* saved_at[p]: the clock value at call p's c.save(), -1 before it

vars == <<clock, pc, args, cells, todo, frame, canvas, result, reads, saved_at>>

Calls == {1, 2}

\* Bounds of the model.
MaxClock == 2
TicksPerDay == 2

Max(a, b) == IF a >= b THEN a ELSE b

----------------------------------------------------------------------------
\* Lengths

Length(d, h) == [dmm |-> d, hmpt |-> h]
Mm(n) == Length(10 * n, 0)
Pt(n) == Length(0, 2000 * n)
LAdd(a, b) == Length(a.dmm + b.dmm, a.hmpt + b.hmpt)
LSub(a, b) == Length(a.dmm - b.dmm, a.hmpt - b.hmpt)
LHalf(a) == Length(a.dmm \div 2, a.hmpt \div 2)
LPct(a, pct) == Length((a.dmm * pct) \div 100, (a.hmpt * pct) \div 100)

\* mm_to_pt = 2.834645669 = (mm_to_pt_milli * 10^6 + mm_to_pt_rest) / 10^9
mm_to_pt_milli == 2834
mm_to_pt_rest == 645669

\* a > b for two lengths.  With P = a.hmpt - b.hmpt and M = b.dmm - a.dmm it is
\* P/2000 > (M/10) * mm_to_pt, that is (5P - 2834M) * 10^6 > 645669 * M; the
\* cases keep the products within 32 bits.
Overflows(a, b) ==
    LET P == a.hmpt - b.hmpt
        M == b.dmm - a.dmm
        D == 5 * P - mm_to_pt_milli * M
        absM == IF M >= 0 THEN M ELSE -M
    IN  IF D >= absM THEN D > 0
        ELSE IF D <= -absM THEN FALSE
        ELSE D * 1000000 > mm_to_pt_rest * M

----------------------------------------------------------------------------
\* Inputs

Coffee == "Extra Strong Dark Roast Ground Coffee Premium Blend"
Milk == "Milk 1L"

\* The product names tried: the empty name, a short one, a long one and the
\* long one cut after "Extra Strong Dark R".
Names == {"", Milk, SubSeq(Coffee, 1, 19), Coffee}

SINGLE == "48x25mm"
DOUBLE == "96x25mm"
LabelSizes == {SINGLE, DOUBLE, "A4"}

IsPrefix(s, t) == Len(s) <= Len(t) /\ SubSeq(t, 1, Len(s)) = s

----------------------------------------------------------------------------
\* Font metrics and the clock

\* Helvetica-Bold advance widths, in thousandths of the font size.
GlyphWidth(c) ==
    CASE c \in {" ", "/", "i", "l"} -> 278
      [] c \in {"f", "t"} -> 333
      [] c \in {"r"} -> 389
      [] c \in {"0", "1", "2", "3", "4", "5", "6", "7", "8", "9",
                "a", "e", "k", "s", "x"} -> 556
      [] c \in {"L", "d", "g", "n", "o", "u"} -> 611
      [] c \in {"E", "P", "S"} -> 667
      [] c \in {"B", "C", "D", "R"} -> 722
      [] c \in {"G"} -> 778
      [] c \in {"M"} -> 833
      [] c \in {"m"} -> 889

\* The sum of the glyph widths of the characters i, i+1, ... of text.
RECURSIVE GlyphSumFrom(_, _)
GlyphSumFrom(text, i) ==
    IF i > Len(text) THEN 0
    ELSE GlyphWidth(SubSeq(text, i, i)) + GlyphSumFrom(text, i + 1)
GlyphSum(text) == GlyphSumFrom(text, 1)

\* The glyph sums of the product names, computed once.
NameSums == [t \in Names |-> GlyphSum(t)]
TextSum(text) == IF text \in Names THEN NameSums[text] ELSE GlyphSum(text)

\* canvas_obj.stringWidth(text, "Helvetica-Bold", size):
\* (sum of the glyph widths) * 0.001 * size points
stringWidth(text, size) == Length(0, 2 * TextSum(text) * size)

Digits == "0123456789"
Digit(n) == SubSeq(Digits, n + 1, n + 1)
TwoDigits(n) == Digit((n \div 10) % 10) \o Digit(n % 10)
FourDigits(n) == TwoDigits(n \div 100) \o TwoDigits(n % 100)

\* The calendar day of a clock value, counted from 31/12/2025.
DayOf(now) == now \div TicksPerDay
\* <<day, month, year>> of a calendar day (through January 2026).
DateOf(day) == IF day = 0 THEN <<31, 12, 2025>> ELSE <<day, 1, 2026>>

\* datetime.now().strftime("%d/%m/%Y")
strftime(now) ==
    LET d == DateOf(DayOf(now))
    IN  TwoDigits(d[1]) \o "/" \o TwoDigits(d[2]) \o "/" \o FourDigits(d[3])

\* The time stamp c.save() writes into the document (/CreationDate, /ModDate,
\* and the /ID derived from them), D:YYYYMMDD followed by the time of day.
PdfDate(now) ==
    LET d == DateOf(DayOf(now))
    IN  "D:" \o FourDigits(d[3]) \o TwoDigits(d[2]) \o TwoDigits(d[1])
        \o TwoDigits(now % TicksPerDay)

----------------------------------------------------------------------------
\* create_label_pdf: the page and its cells

\* The page of a double label, 90 mm wide.
PageSize_short(label_size) ==
    IF label_size = SINGLE THEN <<Mm(48), Mm(25)>> ELSE <<Mm(90), Mm(25)>>

\* pagesize=(width, height)
PageSize(label_size) ==
    IF label_size = SINGLE THEN <<Mm(48), Mm(25)>> ELSE <<Mm(96), Mm(25)>>

Cell(width, height, x_offset) ==
    [width |-> width, height |-> height, x_offset |-> x_offset]

\* The draw_single_label calls create_label_pdf makes, in order.
Cells(label_size) ==
    IF label_size = SINGLE
    THEN <<Cell(Mm(48), Mm(25), Mm(0))>>
    ELSE LET label_width == Mm(48)
         IN  <<Cell(label_width, Mm(25), Mm(0)),
               Cell(label_width, Mm(25), label_width)>>

\* One canvas object shared by every call.
CanvasOf_shared(p) == 1

\* The canvas call p draws on: the one it created itself.
CanvasOf(p) == p

NoCanvas == [created |-> FALSE, pagesize |-> <<Mm(0), Mm(0)>>, font_size |-> 0, ops |-> <<>>]
\* canvas.Canvas(buffer, pagesize=...): an empty page, the default font at 12
NewCanvas(pagesize) ==
    [created |-> TRUE, pagesize |-> pagesize, font_size |-> 12, ops |-> <<>>]

----------------------------------------------------------------------------
\* draw_single_label: font sizes, the shrink loop, positions

base_width == Mm(48)

\* scale_factor = width / base_width is a quotient of two doubles,
\* (w * 2.834645669) / (48 * 2.834645669), and for some widths it comes out one
\* unit in the last place below w/48.  Where 12w/48 is a whole number the
\* product 12 * scale_factor then falls just below it (24.999999999999996 at
\* 100 mm) and int() truncates to one less.  These are the whole-millimetre
\* widths up to 1000 mm at which that happens.
DateSizeShortWidths == {100, 200, 400, 800}

\* max(12, int(16 * scale_factor)) with scale_factor = width / base_width.
\* For no whole-millimetre width up to 1000 mm does 16 * scale_factor fall
\* below a whole number 16w/48, so int() is the floor of 16w/48.
product_font_size(width) == Max(12, (16 * width.dmm) \div base_width.dmm)

\* max(8, int(12 * scale_factor)): the floor of 12w/48, and one less at the
\* widths where the doubles fall short of it.
date_font_size(width) ==
    LET floor == (12 * width.dmm) \div base_width.dmm
    IN  Max(8, IF width \in {Mm(w) : w \in DateSizeShortWidths}
               THEN floor - 1 ELSE floor)

\* width * 0.9
available_width(width) == LPct(width, 90)

\* label_padding + usable_height * 0.7
product_name_y(height) ==
    LET label_padding == LPct(height, 10)
        usable_height == LSub(height, LAdd(label_padding, label_padding))
    IN  LAdd(label_padding, LPct(usable_height, 70))

\* label_padding + usable_height * 0.25
date_y(height) ==
    LET label_padding == LPct(height, 10)
        usable_height == LSub(height, LAdd(label_padding, label_padding))
    IN  LAdd(label_padding, LPct(usable_height, 25))

\* x_offset + (width - text_width) / 2
Centered(x_offset, width, text_width) ==
    LAdd(x_offset, LHalf(LSub(width, text_width)))

NoFrame == [active |-> FALSE]

\* The locals of draw_single_label when it reaches the loop test the first time.
EnterLabel(cell, product_name, now) ==
    [active |-> TRUE,
     width |-> cell.width, height |-> cell.height, x_offset |-> cell.x_offset,
     current_date |-> strftime(now),
     product_font_size |-> product_font_size(cell.width),
     date_font_size |-> date_font_size(cell.width),
     text_width |-> stringWidth(product_name, product_font_size(cell.width)),
     initial_font_size |-> product_font_size(cell.width),
     iterations |-> 0]

\* The loop test with >= for >.
LoopGuard_ge(f) ==
    Overflows(f.text_width, available_width(f.width)) /\ f.product_font_size >= 8

\* The loop test with the comparison of the widths turned round.
LoopGuard_inverted(f) ==
    Overflows(available_width(f.width), f.text_width) /\ f.product_font_size > 8

\* while text_width > available_width and product_font_size > 8
LoopGuard(f) ==
    Overflows(f.text_width, available_width(f.width)) /\ f.product_font_size > 8

\* A loop body that shrinks the date font along with the name font.
ShrunkFonts_both(f) ==
    [f EXCEPT !.product_font_size = @ - 1, !.date_font_size = @ - 1]

\* A loop body that shrinks by two points.
ShrunkFonts_two(f) == [f EXCEPT !.product_font_size = @ - 2]

\* product_font_size -= 1
ShrunkFonts(f) == [f EXCEPT !.product_font_size = @ - 1]

\* A loop body that keeps the width measured before the decrement.
LoopMeasure_stale(product_name, f) == f.text_width

\* text_width = canvas_obj.stringWidth(product_name, "Helvetica-Bold", product_font_size)
LoopMeasure(product_name, f) == stringWidth(product_name, f.product_font_size)

\* canvas_obj.drawString(x, y, text), at the font size the canvas has then
DrawString(x, y, text, font_size) ==
    [op |-> "drawString", x |-> x, y |-> y, text |-> text, font_size |-> font_size]

\* canvas_obj.rect(x, y, width, height)
Rect(x, y, w, h) == [op |-> "rect", x |-> x, y |-> y, width |-> w, height |-> h]

border_padding == Pt(2)

\* The canvas after the statements that follow the loop.
DrawnLabel(c, f, product_name) ==
    LET name_op == DrawString(Centered(f.x_offset, f.width, f.text_width),
                              product_name_y(f.height), product_name, c.font_size)
        date_text_width == stringWidth(f.current_date, f.date_font_size)
        date_op == DrawString(Centered(f.x_offset, f.width, date_text_width),
                              date_y(f.height), f.current_date, f.date_font_size)
        border == Rect(LAdd(f.x_offset, border_padding), border_padding,
                       LSub(f.width, LAdd(border_padding, border_padding)),
                       LSub(f.height, LAdd(border_padding, border_padding)))
    IN  [c EXCEPT !.font_size = f.date_font_size,
                  !.ops = @ \o <<name_op, date_op, border>>]

----------------------------------------------------------------------------
\* The calls

NoArgs == [fn |-> "none", product_name |-> "", label_size |-> "none"]
NoResult == [status |-> "none"]

Init ==
    /\ clock = 0
    /\ pc = [p \in Calls |-> "idle"]
    /\ args = [p \in Calls |-> NoArgs]
    /\ cells = [p \in Calls |-> <<>>]
    /\ todo = [p \in Calls |-> <<>>]
    /\ frame = [p \in Calls |-> NoFrame]
    /\ canvas = [c \in Calls |-> NoCanvas]
    /\ result = [p \in Calls |-> NoResult]
    /\ reads = [p \in Calls |-> <<>>]
    /\ saved_at = [p \in Calls |-> -1]

\* The clock moves on.
Tick ==
    /\ clock < MaxClock
    /\ clock' = clock + 1
    /\ UNCHANGED <<pc, args, cells, todo, frame, canvas, result, reads, saved_at>>

\* create_label_pdf up to its first call of draw_single_label: the buffer and
\* the canvas are made; every size but "48x25mm" takes the else branch.
CallCreate(p, product_name, label_size) ==
    /\ pc[p] = "idle"
    /\ args' = [args EXCEPT ![p] = [fn |-> "create_label_pdf",
                                    product_name |-> product_name,
                                    label_size |-> label_size]]
    /\ canvas' = [canvas EXCEPT ![CanvasOf(p)] = NewCanvas(PageSize(label_size))]
    /\ cells' = [cells EXCEPT ![p] = Cells(label_size)]
    /\ todo' = [todo EXCEPT ![p] = Cells(label_size)]
    /\ pc' = [pc EXCEPT ![p] = "draw"]
    /\ UNCHANGED <<clock, frame, result, reads, saved_at>>

\* draw_single_label from its first line to the first loop test: the date is
\* read, the fonts are sized, the name font is set and the name measured.
DrawBegin(p) ==
    /\ pc[p] = "draw"
    /\ LET f == EnterLabel(Head(todo[p]), args[p].product_name, clock)
       IN  /\ frame' = [frame EXCEPT ![p] = f]
           /\ canvas' = [canvas EXCEPT ![CanvasOf(p)].font_size = f.product_font_size]
    /\ reads' = [reads EXCEPT ![p] = Append(@, clock)]
    /\ pc' = [pc EXCEPT ![p] = "loop"]
    /\ UNCHANGED <<clock, args, cells, todo, result, saved_at>>

\* One turn of the shrink loop.
ShrinkStep(p) ==
    /\ pc[p] = "loop"
    /\ LoopGuard(frame[p])
    /\ LET g == ShrunkFonts(frame[p])
       IN  /\ frame' = [frame EXCEPT ![p] =
                           [g EXCEPT !.text_width = LoopMeasure(args[p].product_name, g),
                                     !.iterations = @ + 1]]
           /\ canvas' = [canvas EXCEPT ![CanvasOf(p)].font_size = g.product_font_size]
    /\ UNCHANGED <<clock, pc, args, cells, todo, result, reads, saved_at>>

\* The loop ends; name, date and border are drawn and draw_single_label returns.
DrawFinish(p) ==
    /\ pc[p] = "loop"
    /\ ~LoopGuard(frame[p])
    /\ canvas' = [canvas EXCEPT ![CanvasOf(p)] =
                     DrawnLabel(@, frame[p], args[p].product_name)]
    /\ todo' = [todo EXCEPT ![p] = Tail(@)]
    /\ pc' = [pc EXCEPT ![p] =
                 IF Tail(todo[p]) # <<>> THEN "draw" ELSE "save"]
    /\ UNCHANGED <<clock, args, cells, frame, result, reads, saved_at>>

\* c.save(); buffer.seek(0); return buffer.getvalue().  The document saved
\* holds the page and the time of saving.
Save(p) ==
    /\ pc[p] = "save"
    /\ result' = [result EXCEPT ![p] =
                     [status |-> "ok",
                      pagesize |-> canvas[CanvasOf(p)].pagesize,
                      ops |-> canvas[CanvasOf(p)].ops,
                      creation_date |-> PdfDate(clock)]]
    /\ saved_at' = [saved_at EXCEPT ![p] = clock]
    /\ pc' = [pc EXCEPT ![p] = "done"]
    /\ UNCHANGED <<clock, args, cells, todo, frame, canvas, reads>>

Next ==
    \/ Tick
    \/ \E p \in Calls, n \in Names, s \in LabelSizes : CallCreate(p, n, s)
    \/ \E p \in Calls : DrawBegin(p)
    \/ \E p \in Calls : ShrinkStep(p)
    \/ \E p \in Calls : DrawFinish(p)
    \/ \E p \in Calls : Save(p)

Spec == Init /\ [][Next]_vars

----------------------------------------------------------------------------
\* What a call has produced

IsRender(p) == args[p].fn = "create_label_pdf"
Page(p) == canvas[CanvasOf(p)]
\* The number of cells call p has finished drawing.
Finished(p) == Len(cells[p]) - Len(todo[p])
NameOp(p, i) == Page(p).ops[3 * i - 2]
DateOp(p, i) == Page(p).ops[3 * i - 1]
BorderOp(p, i) == Page(p).ops[3 * i]

\* A drawing operation moved dx to the right.
Translate(o, dx) == [o EXCEPT !.x = LAdd(@, dx)]

\* The font size the shrink loop ends with, started at size.
RECURSIVE FinalSize(_, _, _)
FinalSize(text, width, size) ==
    IF Overflows(stringWidth(text, size), available_width(width)) /\ size > 8
    THEN FinalSize(text, width, size - 1)
    ELSE size

\* The final sizes of the product names in the cell widths tried, computed once.
FinalSizes ==
    [t \in Names, w \in {48} |->
        FinalSize(t, Mm(w), product_font_size(Mm(w)))]

\* The three operations one draw_single_label call leaves on a canvas when it
\* runs from start to end with the clock at now.
LabelOps(product_name, cell, now) ==
    LET size == FinalSizes[product_name, cell.width.dmm \div 10]
        date == strftime(now)
    IN  <<DrawString(Centered(cell.x_offset, cell.width, stringWidth(product_name, size)),
                     product_name_y(cell.height), product_name, size),
          DrawString(Centered(cell.x_offset, cell.width,
                              stringWidth(date, date_font_size(cell.width))),
                     date_y(cell.height), date, date_font_size(cell.width)),
          Rect(LAdd(cell.x_offset, border_padding), border_padding,
               LSub(cell.width, LAdd(border_padding, border_padding)),
               LSub(cell.height, LAdd(border_padding, border_padding)))>>

\* The operations of the first n cells of call p, each drawn at the time call p
\* read the clock for it.
RECURSIVE AloneOps(_, _)
AloneOps(p, n) ==
    IF n = 0 THEN <<>>
    ELSE AloneOps(p, n - 1) \o LabelOps(args[p].product_name, cells[p][n], reads[p][n])

----------------------------------------------------------------------------
\* C1: a size selector that is neither "48x25mm" nor "96x25mm" is rejected
\* before anything is computed or drawn: the call creates no canvas, enters
\* draw_single_label for no cell and returns no page.
C1_InvalidSizeRejected ==
    \A p \in Calls :
        (IsRender(p) /\ args[p].label_size \notin {SINGLE, DOUBLE})
            => /\ ~Page(p).created
               /\ cells[p] = <<>>
               /\ ~frame[p].active
               /\ result[p].status # "ok"

\* C2: in every finished DOUBLE render, the operations of cell 1 are those of
\* cell 0 moved one cell width (48 mm) to the right: same name, same date, same
\* font sizes, same positions within the cell, whatever the clock did between
\* the two cells.
C2_DoubleCellsIdentical ==
    \A p \in Calls :
        (IsRender(p) /\ args[p].label_size = DOUBLE /\ pc[p] = "done")
            => /\ Len(result[p].ops) = 6
               /\ \A k \in 1..3 :
                     result[p].ops[3 + k] = Translate(result[p].ops[k], Mm(48))

\* C3: rendering is deterministic in its inputs.  Two finished renders of the
\* same product name and size returned the same document, whenever each of
\* them ran.
C3_SameInputsSameOutput ==
    \A p, q \in Calls :
        (/\ IsRender(p) /\ IsRender(q)
         /\ pc[p] = "done" /\ pc[q] = "done"
         /\ args[p] = args[q])
            => result[p] = result[q]

\* C4: the shrink loop is bounded.  In every state of a draw_single_label call
\* the name font size is the initial size less one per iteration made, it is
\* at least 8, so at most (initial size - 8) iterations were made, and at most
\* 8 in a 48 mm cell.
C4_ShrinkLoopBounded ==
    \A p \in Calls :
        frame[p].active =>
            /\ frame[p].product_font_size = frame[p].initial_font_size - frame[p].iterations
            /\ frame[p].product_font_size >= 8
            /\ frame[p].iterations <= frame[p].initial_font_size - 8
            /\ frame[p].width = Mm(48) => frame[p].iterations <= 8

\* A 48 mm cell whose loop has made all 8 iterations, and another whose loop
\* has stopped after 4.
C4_Witness ==
    /\ frame[1].active /\ frame[1].width = Mm(48) /\ frame[1].iterations = 8
    /\ frame[2].active /\ frame[2].width = Mm(48) /\ frame[2].iterations = 4
    /\ pc[2] = "done"

\* The name of cell i of call p, as drawn, is wider than 90% of the cell.
NameOverflows(p, i) ==
    Overflows(stringWidth(NameOp(p, i).text, NameOp(p, i).font_size),
              available_width(cells[p][i].width))

\* C5: every name is drawn either at a size at which it fits in 90% of its
\* cell or at size 8; and a call whose name overflows at size 8 ends like any
\* other: name, date and border of every cell are on the page, and
\* create_label_pdf has returned the page.
C5_FitsOrMinimumSize ==
    \A p \in Calls :
        /\ \A i \in 1..Finished(p) :
              /\ ~NameOverflows(p, i) \/ NameOp(p, i).font_size = 8
              /\ NameOp(p, i).op = "drawString"
              /\ NameOp(p, i).text = args[p].product_name
              /\ DateOp(p, i).op = "drawString"
              /\ BorderOp(p, i).op = "rect"
        /\ pc[p] = "done" =>
              /\ Finished(p) = Len(cells[p])
              /\ Len(Page(p).ops) = 3 * Len(cells[p])
              /\ IsRender(p) =>
                    /\ result[p].status = "ok"
                    /\ result[p].ops = Page(p).ops

\* A finished double render whose name overflows both cells at size 8.
C5_Witness ==
    /\ IsRender(1) /\ pc[1] = "done" /\ args[1].label_size = DOUBLE
    /\ result[1].status = "ok"
    /\ NameOverflows(1, 1) /\ NameOverflows(1, 2)
    /\ NameOp(1, 2).font_size = 8

\* C6: the page of a render has the nominal size and its cells tile it.
\* SINGLE: a 48 x 25 mm page, one 48 mm cell at 0.  DOUBLE: a 96 x 25 mm page,
\* two 48 mm cells at 0 and 48 mm.  Every cell is 25 mm high, starts where the
\* one before it ends, and the last ends at the page's right edge; the borders
\* drawn sit at those offsets.
C6_PageAndCellGeometry ==
    \A p \in Calls :
        (IsRender(p) /\ args[p].label_size \in {SINGLE, DOUBLE}) =>
            LET n == IF args[p].label_size = SINGLE THEN 1 ELSE 2
            IN  /\ Page(p).created
                /\ Page(p).pagesize = <<Mm(48 * n), Mm(25)>>
                /\ Len(cells[p]) = n
                /\ \A i \in 1..n :
                      /\ cells[p][i].width = Mm(48)
                      /\ cells[p][i].height = Mm(25)
                      /\ cells[p][i].x_offset = Mm(48 * (i - 1))
                /\ LAdd(cells[p][n].x_offset, cells[p][n].width) = Page(p).pagesize[1]
                /\ \A i \in 1..Finished(p) :
                      BorderOp(p, i).x = LAdd(Mm(48 * (i - 1)), Pt(2))
                /\ pc[p] = "done" => result[p].pagesize = <<Mm(48 * n), Mm(25)>>

\* A finished single render and a finished double render.
C6_Witness ==
    /\ IsRender(1) /\ args[1].label_size = SINGLE /\ pc[1] = "done"
    /\ IsRender(2) /\ args[2].label_size = DOUBLE /\ pc[2] = "done"
    /\ BorderOp(2, 2).x = LAdd(Mm(48), Pt(2))

\* C7: with the cell width fixed, the final name font size does not grow when
\* the name is extended: of two calls with cells of the same width, the second
\* name an extension of the first, the second name is drawn no larger than the
\* first.  No name is drawn smaller than 8.
C7_FontSizeMonotone ==
    /\ \A p \in Calls : \A i \in 1..Finished(p) : NameOp(p, i).font_size >= 8
    /\ \A p, q \in Calls :
          (/\ Finished(p) >= 1 /\ Finished(q) >= 1
           /\ cells[p][1].width = cells[q][1].width
           /\ IsPrefix(args[p].product_name, args[q].product_name))
              => NameOp(q, 1).font_size <= NameOp(p, 1).font_size

\* A name drawn at 12 in a 48 mm cell and an extension of it drawn at 8 in
\* another 48 mm cell.
C7_Witness ==
    /\ Finished(1) >= 1 /\ Finished(2) >= 1
    /\ cells[1][1].width = Mm(48) /\ cells[2][1].width = Mm(48)
    /\ IsPrefix(args[1].product_name, args[2].product_name)
    /\ NameOp(1, 1).font_size = 12
    /\ NameOp(2, 1).font_size = 8

\* The gaps left and right of a text of width w drawn at x in a cell.
LeftGap(cell, x) == LSub(x, cell.x_offset)
RightGap(cell, x, w) == LSub(LAdd(cell.x_offset, cell.width), LAdd(x, w))

\* C8: every name is drawn at x = x_offset + (width - w) / 2 with w its width
\* at the font size the canvas has when it is drawn, which is the size the
\* loop ended with; the gap to the left of the text equals the gap to its
\* right.  The same holds for the date at the date font size.
C8_TextCentered ==
    \A p \in Calls : \A i \in 1..Finished(p) :
        LET cell == cells[p][i]
            nw == stringWidth(NameOp(p, i).text, NameOp(p, i).font_size)
            dw == stringWidth(DateOp(p, i).text, DateOp(p, i).font_size)
        IN  /\ NameOp(p, i).x = LAdd(cell.x_offset, LHalf(LSub(cell.width, nw)))
            /\ LeftGap(cell, NameOp(p, i).x) = RightGap(cell, NameOp(p, i).x, nw)
            /\ (i = Len(reads[p]) /\ frame[p].active) =>
                  NameOp(p, i).font_size = frame[p].product_font_size
            /\ DateOp(p, i).x = LAdd(cell.x_offset, LHalf(LSub(cell.width, dw)))
            /\ LeftGap(cell, DateOp(p, i).x) = RightGap(cell, DateOp(p, i).x, dw)

\* A name shrunk by the loop and drawn in the right-hand cell of a double label.
C8_Witness ==
    /\ Finished(1) = 2
    /\ cells[1][2].x_offset = Mm(48)
    /\ frame[1].iterations = 4
    /\ NameOp(1, 2).font_size = 12

\* C9: calls share nothing they write.  However the steps of the two calls
\* interleave, the canvas of each call holds exactly what the call draws when
\* it runs alone with the same clock readings, its font is the one the call
\* set last, and the page it returns is that canvas.
C9_CallsIndependent ==
    \A p \in Calls :
        /\ pc[p] # "idle" =>
              /\ Page(p).created
              /\ Page(p).pagesize[1] =
                    LAdd(cells[p][Len(cells[p])].x_offset, cells[p][Len(cells[p])].width)
              /\ Page(p).ops = AloneOps(p, Finished(p))
        /\ pc[p] = "loop" => Page(p).font_size = frame[p].product_font_size
        /\ (pc[p] = "done" /\ IsRender(p)) =>
              result[p] = [status |-> "ok",
                           pagesize |-> PageSize(args[p].label_size),
                           ops |-> AloneOps(p, Len(cells[p])),
                           creation_date |-> PdfDate(saved_at[p])]

\* Both calls inside their shrink loops at once, at different font sizes.
C9_Witness ==
    /\ pc[1] = "loop" /\ pc[2] = "loop"
    /\ frame[1].iterations > 0 /\ frame[2].iterations > 0
    /\ Page(1).font_size # Page(2).font_size
    /\ Finished(1) = 1

\* C10: the loop leaves the date font size alone.  Throughout a
\* draw_single_label call, and on the date it draws, the date font size is
\* max(8, floor(12 * width / 48 mm)) of the cell's width, however often the
\* loop has shrunk the name.
C10_DateFontUntouched ==
    \A p \in Calls :
        /\ frame[p].active =>
              frame[p].date_font_size = Max(8, (12 * frame[p].width.dmm) \div 480)
        /\ \A i \in 1..Finished(p) :
              DateOp(p, i).font_size = Max(8, (12 * cells[p][i].width.dmm) \div 480)

\* A double label whose name was shrunk 8 times in each cell, with both dates
\* drawn at 12.
C10_Witness ==
    /\ Finished(1) = 2 /\ pc[1] = "done"
    /\ frame[1].iterations = 8 /\ frame[1].product_font_size = 8
    /\ frame[1].date_font_size = 12
    /\ DateOp(1, 1).font_size = 12 /\ DateOp(1, 2).font_size = 12

====
